---- MODULE Spec2Model ----
(***************************************************************************)
(* Model of rpw/base.py (BaseObjectWrapper) and rpw/db/element.py          *)
(* (Element, Instance, Symbol, Family, Category).                          *)
(*                                                                         *)
(* Python values are strings: an external object is named by its id, a     *)
(* type or a class by its name.  `wrapper' is the wrapper a script holds,  *)
(* a record of its class and its instance __dict__; `objAttr' holds the    *)
(* attributes of the external objects.  Every operation leaves its result  *)
(* in `last', so that what a call returned or raised can be stated.        *)
(***************************************************************************)
EXTENDS Integers, Sequences, FiniteSets, TLC

VARIABLES wrapper, objAttr, last

vars == <<wrapper, objAttr, last>>

-----------------------------------------------------------------------------
(* Bounds                                                                  *)

\* Depth of nested calls after which the interpreter raises RuntimeError
\* ("maximum recursion depth exceeded").
RecursionLimit == 4

-----------------------------------------------------------------------------
(* The external object model (DB): runtime types and the document          *)

Absent == "<absent>"
None == "None"

\* Direct base of each runtime type.  DB.Element, DB.FamilyInstance,
\* DB.FamilySymbol, DB.Family and DB.Category are the types element.py names;
\* Wall and AnnotationSymbol stand for element types no wrapper is tagged
\* with, XYZ and bool for types outside the element hierarchy.
TypeBase(t) ==
    CASE t = "Element"          -> "object"
      [] t = "FamilyInstance"   -> "Element"
      [] t = "FamilySymbol"     -> "Element"
      [] t = "Family"           -> "Element"
      [] t = "Wall"             -> "Element"
      [] t = "AnnotationSymbol" -> "FamilyInstance"
      [] OTHER                  -> "object"

RECURSIVE TypeMro(_)
\* inspect.getmro(t): t and all its bases.
TypeMro(t) == IF t = "object" THEN {"object"} ELSE {t} \cup TypeMro(TypeBase(t))

\* The objects of the document.
Objects == {"e1", "w1", "i1", "i2", "s1", "s2", "f1", "f2", "c1", "x1"}

\* Values written to attributes.
Values == {"True"}

\* type(v)
TypeOf(v) ==
    CASE v = "e1" -> "Element"
      [] v = "w1" -> "Wall"
      [] v = "i1" -> "FamilyInstance"
      [] v = "i2" -> "AnnotationSymbol"
      [] v \in {"s1", "s2"} -> "FamilySymbol"
      [] v \in {"f1", "f2"} -> "Family"
      [] v = "c1" -> "Category"
      [] v = "x1" -> "XYZ"
      [] OTHER -> "bool"

\* isinstance(v, t)
IsInstance(v, t) == t \in TypeMro(TypeOf(v))

\* family.GetFamilySymbolIds() resolved through doc.GetElement
GetFamilySymbolIds(f) ==
    CASE f = "f2" -> <<"s1", "s2">>
      [] OTHER    -> <<>>

\* Collector(symbol=s.Id, is_not_type=True).elements
SymbolInstances(s) ==
    CASE s = "s1" -> <<"i1">>
      [] s = "s2" -> <<"i2">>
      [] OTHER    -> <<>>

\* instance.Symbol
SymbolOf(i) == IF i = "i1" THEN "s1" ELSE "s2"

-----------------------------------------------------------------------------
(* Wrapper classes                                                         *)

WrapperClasses ==
    {"BaseObjectWrapper", "Element", "Instance", "Symbol", "Family", "Category"}

\* Direct base class of each wrapper class.
ClassBase(c) ==
    CASE c = "Element"  -> "BaseObjectWrapper"
      [] c = "Instance" -> "Element"
      [] c = "Symbol"   -> "Element"
      [] c = "Family"   -> "Element"
      [] c = "Category" -> "BaseObjectWrapper"
      [] OTHER          -> "object"

RECURSIVE ClassMro(_)
ClassMro(c) == IF c = "object" THEN {"object"} ELSE {c} \cup ClassMro(ClassBase(c))

\* issubclass(c, d)
IsSubclass(c, d) == d \in ClassMro(c)

\* getattr(wrapper_class, '_revit_object_class', None)
revit_object_class(c) ==
    CASE c = "Element"  -> "Element"
      [] c = "Instance" -> "FamilyInstance"
      [] c = "Symbol"   -> "FamilySymbol"
      [] c = "Family"   -> "Family"
      [] c = "Category" -> "Category"
      [] OTHER          -> None

\* inspect.getmembers(rpw.db, inspect.isclass): sorted by name.
defined_wrapper_classes == <<"Category", "Element", "Family", "Instance", "Symbol">>

\* Read-only properties each wrapper class declares (element.py @property);
\* a class also has those of its bases.
OwnProperties(c) ==
    CASE c = "Instance" -> {"symbol", "family", "category", "siblings"}
      [] c = "Symbol"   -> {"name", "family", "instances", "siblings", "category"}
      [] c = "Family"   -> {"name", "instances", "symbols", "category", "siblings"}
      [] c = "Category" -> {"name", "families", "symbols", "instances", "_builtin_enum"}
      [] OTHER          -> {}

Properties(c) == UNION {OwnProperties(d) : d \in ClassMro(c)}

\* Keys an instance __dict__ can hold in this model.
DictKeys == {"_revit_object", "parameters", "Pinned", "name"}

\* Attribute names a script reads and writes through a wrapper.
AttrNames == {"Pinned", "name", "_revit_object"}

\* Attributes the external objects can expose.
ObjAttrNames == {"Pinned", "Name"}

EmptyDict == [k \in DictKeys |-> Absent]

\* object.__new__(cls): an instance with an empty __dict__.  `orig' records
\* the constructor's argument and is read by no operation.
NewObject(cls, element) == [cls |-> cls, dict |-> EmptyDict, orig |-> element]

NoWrapper == [cls |-> None, dict |-> EmptyDict, orig |-> None]

\* hasattr(v, attr), for v an external value
HasAttr(oa, v, attr) ==
    /\ v \in Objects
    /\ attr \in DOMAIN oa[v]
    /\ oa[v][attr] # Absent

\* What a call leaves: how it ended, the wrapper and the external attributes.
Result(outcome, self, oa) == [outcome |-> outcome, self |-> self, oa |-> oa]

-----------------------------------------------------------------------------
(* rpw/base.py                                                             *)

\* BaseObjectWrapper.__init__
BaseInit(self, oa, revit_object, enforce_type) ==
    IF enforce_type # None /\ ~IsInstance(revit_object, enforce_type)
    THEN Result("RPW_TypeError", self, oa)
    ELSE Result("ok", [self EXCEPT !.dict["_revit_object"] = revit_object], oa)

\* object.__setattr__(self, attr, value): a property without a setter
\* refuses the write, anything else lands in the instance __dict__.
ObjectSetAttr(self, oa, attr, value) ==
    IF attr \in Properties(self.cls)
    THEN Result("AttributeError", self, oa)
    ELSE Result("ok", [self EXCEPT !.dict[attr] = value], oa)

\* BaseObjectWrapper.__setattr__ with the store always the wrapper itself.
BaseSetAttr_AlwaysLocal(self, oa, attr, value) ==
    IF self.dict["_revit_object"] = Absent
    THEN Result("KeyError", self, oa)
    ELSE ObjectSetAttr(self, oa, attr, value)

\* BaseObjectWrapper.__setattr__.  self._revit_object is looked up first; when
\* the __dict__ has no such entry __getattr__ runs and raises KeyError.
BaseSetAttr(self, oa, attr, value) ==
    IF self.dict["_revit_object"] = Absent
    THEN Result("KeyError", self, oa)
    ELSE LET ref == self.dict["_revit_object"] IN
         IF HasAttr(oa, ref, attr)
         THEN Result("ok", self, [oa EXCEPT ![ref][attr] = value])
         ELSE ObjectSetAttr(self, oa, attr, value)

\* BaseObjectWrapper.unwrap
Unwrap(self) ==
    IF self.dict["_revit_object"] = Absent
    THEN [outcome |-> "KeyError", value |-> None]
    ELSE [outcome |-> "ok", value |-> self.dict["_revit_object"]]

\* BaseObjectWrapper.__getattr__: called when normal lookup finds nothing.
BaseGetAttr(self, oa, attr) ==
    IF self.dict["_revit_object"] = Absent
    THEN [outcome |-> "KeyError", value |-> None]
    ELSE LET ref == self.dict["_revit_object"] IN
         IF HasAttr(oa, ref, attr)
         THEN [outcome |-> "ok", value |-> oa[ref][attr]]
         ELSE [outcome |-> "AttributeError", value |-> None]

\* Lookup of a name that is no property: the instance __dict__, then
\* __getattr__.
PlainGetAttr(self, oa, attr) ==
    IF attr \in DictKeys /\ self.dict[attr] # Absent
    THEN [outcome |-> "ok", value |-> self.dict[attr]]
    ELSE BaseGetAttr(self, oa, attr)

-----------------------------------------------------------------------------
(* rpw/db/element.py: construction                                         *)

\* Element.__new__ without the required-type guard.
TypeGuardFails_Never(cls, element) == FALSE

\* Element.__new__, line 86: a specific class refuses an object that is no
\* instance of its required type.
TypeGuardFails(cls, element) ==
    cls # "Element" /\ ~IsInstance(element, revit_object_class(cls))

\* Element.__new__, lines 89-93: the first class, in enumeration order, whose
\* tag is the exact type of the element; None when the loop finds none.
FindWrapperClass(element) ==
    LET hits == {i \in DOMAIN defined_wrapper_classes :
                   TypeOf(element) = revit_object_class(defined_wrapper_classes[i])}
    IN IF hits = {} THEN None
       ELSE defined_wrapper_classes[CHOOSE i \in hits : \A j \in hits : i <= j]

\* Element.__new__'s fallback taken for any object at all.
IsRelated_Always(element) == TRUE

\* Element.__new__, line 99: DB.Element in inspect.getmro(element.__class__)
IsRelated(element) == "Element" \in TypeMro(TypeOf(element))

\* Element.__new__: how it ends and the class of the object it returns.
ElementNew(cls, element) ==
    IF TypeGuardFails(cls, element)
    THEN [outcome |-> "RPW_TypeError", cls |-> None]
    ELSE IF FindWrapperClass(element) # None
    THEN [outcome |-> "ok", cls |-> FindWrapperClass(element)]
    ELSE IF IsRelated(element)
    THEN [outcome |-> "ok", cls |-> cls]
    ELSE [outcome |-> "RPW_Exception", cls |-> None]

\* Element.__init__: the wrapped reference, then self.parameters (stored
\* through __setattr__); ParameterSet(element) is named by its element.
ElementInit(self, oa, element) ==
    LET r == BaseInit(self, oa, element, None) IN
    IF IsInstance(element, "Element")
    THEN BaseSetAttr(r.self, r.oa, "parameters", element)
    ELSE r

\* cls(element): __new__, then __init__ of the object's class, which the
\* interpreter runs only when __new__ returned an instance of cls.
Construct(cls, oa, element, enforce_type) ==
    IF IsSubclass(cls, "Element")
    THEN LET n == ElementNew(cls, element) IN
         IF n.outcome # "ok"
         THEN Result(n.outcome, NoWrapper, oa)
         ELSE IF IsSubclass(n.cls, cls)
         THEN ElementInit(NewObject(n.cls, element), oa, element)
         ELSE Result("ok", NewObject(n.cls, element), oa)
    ELSE LET r == BaseInit(NewObject(cls, element), oa, element, enforce_type) IN
         IF r.outcome = "ok" THEN r ELSE Result(r.outcome, NoWrapper, oa)

-----------------------------------------------------------------------------
(* rpw/db/element.py: derived properties                                   *)

\* parameters.builtins['SYMBOL_NAME_PARAM'].value of a symbol
SymbolNameParam(s) == IF s = "s1" THEN "72x36" ELSE "60x30"

\* parameters.builtins['SYMBOL_FAMILY_NAME_PARAM'].value of a symbol
SymbolFamilyNameParam(s) == "desk"

Value(v) == [outcome |-> "ok", value |-> v]
Raise(e) == [outcome |-> e, value |-> None]

\* Symbol.name: self.parameters, then the built-in parameter's value.
SymbolName(self, oa) ==
    LET ps == PlainGetAttr(self, oa, "parameters") IN
    IF ps.outcome # "ok" THEN ps ELSE Value(SymbolNameParam(ps.value))

\* Family.symbols: the symbols the wrapped family owns.
FamilySymbols(self, oa) ==
    LET ref == Unwrap(self) IN
    IF ref.outcome # "ok" THEN ref
    ELSE IF TypeOf(ref.value) # "Family" THEN Raise("AttributeError")
    ELSE Value(GetFamilySymbolIds(ref.value))

\* name of a wrapper of the first symbol, as Family.name reads it:
\* Element.Factory(symbol).parameters.builtins[...].value
FirstSymbolFamilyName(oa, symbol) ==
    LET w == Construct("Element", oa, symbol, None) IN
    IF w.outcome # "ok" THEN Raise(w.outcome)
    ELSE LET ps == PlainGetAttr(w.self, w.oa, "parameters") IN
         IF ps.outcome # "ok" THEN ps ELSE Value(SymbolFamilyNameParam(ps.value))

RECURSIVE FamilyName(_, _, _)
\* Family.name at call depth `depth'.  The IndexError handler formats its
\* message with self.name, which is this property again; the interpreter
\* ends the descent with RuntimeError at its recursion limit.
FamilyName(self, oa, depth) ==
    IF depth > RecursionLimit THEN Raise("RuntimeError")
    ELSE LET symbols == FamilySymbols(self, oa) IN
         IF symbols.outcome # "ok" THEN symbols
         ELSE IF symbols.value = <<>>
         THEN LET inner == FamilyName(self, oa, depth + 1) IN
              IF inner.outcome # "ok" THEN inner ELSE Raise("RPW_Exception")
         ELSE FirstSymbolFamilyName(oa, symbols.value[1])

\* Category.name: self._revit_object.Name
CategoryName(self, oa) == BaseGetAttr(self, oa, "Name")

\* Instance.symbol.name: Symbol(self._revit_object.Symbol).name
InstanceSymbolName(self, oa) ==
    LET ref == Unwrap(self) IN
    IF ref.outcome # "ok" THEN ref
    ELSE IF ~IsInstance(ref.value, "FamilyInstance") THEN Raise("AttributeError")
    ELSE LET w == Construct("Symbol", oa, SymbolOf(ref.value), None) IN
         IF w.outcome # "ok" THEN Raise(w.outcome) ELSE SymbolName(w.self, w.oa)

\* The `name' property of the classes that declare one.
NameProperty(self, oa) ==
    CASE self.cls = "Symbol"   -> SymbolName(self, oa)
      [] self.cls = "Family"   -> FamilyName(self, oa, 1)
      [] self.cls = "Category" -> CategoryName(self, oa)

\* wrapper.attr for the names of AttrNames: a property of the class comes
\* first, then the instance __dict__, then __getattr__.
GetAttribute(self, oa, attr) ==
    IF attr = "name" /\ attr \in Properties(self.cls)
    THEN NameProperty(self, oa)
    ELSE PlainGetAttr(self, oa, attr)

\* Members of a returned list: one element, or a list of elements.
PyElement(o) == [kind |-> "element", id |-> o, items |-> <<>>]
PyList(xs) == [kind |-> "list", id |-> None, items |-> xs]

\* A list of elements, as Collector(...).elements returns it.
PyElements(xs) == [j \in DOMAIN xs |-> PyElement(xs[j])]

\* Symbol.instances, read on Element.Factory(symbol): the property when the
\* factory gave a Symbol, else the passthrough read of `instances'.
FactoryInstances(oa, symbol) ==
    LET w == Construct("Element", oa, symbol, None) IN
    IF w.outcome # "ok" THEN Raise(w.outcome)
    ELSE IF "instances" \in Properties(w.self.cls)
    THEN LET ref == Unwrap(w.self) IN
         IF ref.outcome # "ok" THEN ref
         ELSE Value(PyElements(SymbolInstances(ref.value)))
    ELSE BaseGetAttr(w.self, w.oa, "instances")

RECURSIVE FamilyInstancesLoop(_, _, _)
\* Family.instances, the loop body over symbols[k..]: each symbol's list is
\* appended, as one member, to `instances'.
FamilyInstancesLoop(oa, symbols, instances) ==
    IF symbols = <<>> THEN Value(instances)
    ELSE LET symbol_instances == FactoryInstances(oa, Head(symbols)) IN
         IF symbol_instances.outcome # "ok" THEN symbol_instances
         ELSE FamilyInstancesLoop(oa, Tail(symbols),
                  Append(instances, PyList(symbol_instances.value)))

\* Family.instances
FamilyInstances(self, oa) ==
    LET symbols == FamilySymbols(self, oa) IN
    IF symbols.outcome # "ok" THEN symbols
    ELSE FamilyInstancesLoop(oa, symbols.value, <<>>)

-----------------------------------------------------------------------------
(* __repr__                                                                *)

\* '<RPW_{class_name}: {optional_data}>'; field is "" when the data is the
\* wrapped object's class name.
ReprText(class_name, field, value) ==
    [outcome |-> "ok", class_name |-> class_name, field |-> field, value |-> value]

ReprRaise(e) == [outcome |-> e, class_name |-> None, field |-> None, value |-> None]

\* BaseObjectWrapper.__repr__(data)
BaseRepr(self, field, value) ==
    IF field = ""
    THEN LET ref == Unwrap(self) IN
         IF ref.outcome # "ok" THEN ReprRaise(ref.outcome)
         ELSE ReprText(self.cls, "", TypeOf(ref.value))
    ELSE ReprText(self.cls, field, value)

\* Element.__repr__(): data = {'id': getattr(self._revit_object, 'Id', None)}
ElementRepr(self) ==
    LET ref == Unwrap(self) IN
    IF ref.outcome # "ok" THEN ReprRaise(ref.outcome)
    ELSE BaseRepr(self, "id", IF ref.value \in Objects THEN ref.value ELSE None)

\* repr of a class that passes {field: <a derived name>} up to the base.
NamedRepr(self, field, name) ==
    IF name.outcome # "ok" THEN ReprRaise(name.outcome)
    ELSE BaseRepr(self, field, name.value)

\* repr(wrapper): the __repr__ of the wrapper's class.
Repr(self, oa) ==
    CASE self.cls = "BaseObjectWrapper" -> BaseRepr(self, "", "")
      [] self.cls = "Element"  -> ElementRepr(self)
      [] self.cls = "Instance" -> NamedRepr(self, "symbol", InstanceSymbolName(self, oa))
      [] self.cls = "Symbol"   -> NamedRepr(self, "name", SymbolName(self, oa))
      [] self.cls = "Family"   -> NamedRepr(self, "name", FamilyName(self, oa, 1))
      [] self.cls = "Category" -> NamedRepr(self, "name", CategoryName(self, oa))

-----------------------------------------------------------------------------
(* Element.collect                                                         *)

\* Keyword filters of a Collector query and the values callers pass.
KwKeys == {"of_class", "is_type", "is_not_type", "of_category"}
KwValues == {"True", "False"}

\* A keyword dict: each key mapped to its value, or Absent.
KwDicts == [KwKeys -> KwValues \cup {Absent}]

NoParams == [k \in KwKeys |-> Absent]

\* getattr(cls, '_collector_params', None), None shown as the empty dict
\* (both are false in the test that follows).
collector_params(cls) ==
    CASE cls = "Instance" ->
           [NoParams EXCEPT !["of_class"] = "FamilyInstance", !["is_not_type"] = "True"]
      [] cls = "Symbol" ->
           [NoParams EXCEPT !["of_class"] = "FamilySymbol", !["is_type"] = "True"]
      [] cls = "Family" ->
           [NoParams EXCEPT !["of_class"] = "Family"]
      [] OTHER -> NoParams

\* d.update(other): the keys of `other' overwrite those of d.
DictUpdate(d, other) ==
    [k \in KwKeys |-> IF other[k] # Absent THEN other[k] ELSE d[k]]

\* cls.collect(**kwargs): the classmethod is Element's, so only the classes
\* deriving from Element have it.  `query' is the keyword dict handed to
\* rpw.db.Collector, or NoParams when no query is issued.
Collect(cls, kwargs) ==
    IF ~IsSubclass(cls, "Element")
    THEN [outcome |-> "AttributeError", issued |-> FALSE, query |-> NoParams]
    ELSE IF collector_params(cls) # NoParams
    THEN [outcome |-> "ok", issued |-> TRUE,
          query |-> DictUpdate(kwargs, collector_params(cls))]
    ELSE [outcome |-> "RPW_Exception", issued |-> FALSE, query |-> NoParams]

-----------------------------------------------------------------------------
(* The state machine                                                       *)

\* Attributes of the document's objects before any script runs: every
\* element exposes Pinned, the category exposes Name.
InitObjAttr ==
    [o \in Objects |->
       [a \in ObjAttrNames |->
          CASE a = "Pinned" /\ IsInstance(o, "Element") -> "False"
            [] a = "Name" /\ TypeOf(o) = "Category"     -> "Doors"
            [] OTHER                                    -> Absent]]

Init ==
    /\ wrapper = NoWrapper
    /\ objAttr = InitObjAttr
    /\ last = [op |-> "none", outcome |-> "ok"]

\* Required types a caller passes as enforce_type; None when it passes none.
EnforceTypes == {None, "Element", "Category"}

\* w = cls(element) or, for the classes with BaseObjectWrapper's __init__,
\* w = cls(element, enforce_type)
New(cls, element, enforce_type) ==
    /\ wrapper = NoWrapper
    /\ IsSubclass(cls, "Element") => enforce_type = None
    /\ LET r == Construct(cls, objAttr, element, enforce_type) IN
       /\ wrapper' = r.self
       /\ objAttr' = r.oa
       /\ last' = [op |-> "new", cls |-> cls, arg |-> element,
                   enforce_type |-> enforce_type, outcome |-> r.outcome,
                   obj |-> r.self]

\* w.attr = value
SetAttr(attr, value) ==
    /\ wrapper # NoWrapper
    /\ LET r == BaseSetAttr(wrapper, objAttr, attr, value) IN
       /\ wrapper' = r.self
       /\ objAttr' = r.oa
       /\ last' = [op |-> "setattr", attr |-> attr, value |-> value,
                   outcome |-> r.outcome]

\* w.attr
ReadAttr(attr) ==
    /\ wrapper # NoWrapper
    /\ LET r == GetAttribute(wrapper, objAttr, attr) IN
       last' = [op |-> "getattr", attr |-> attr,
                outcome |-> r.outcome, value |-> r.value]
    /\ UNCHANGED <<wrapper, objAttr>>

\* w.instances, for a Family wrapper
ReadInstances ==
    /\ wrapper.cls = "Family"
    /\ LET r == FamilyInstances(wrapper, objAttr) IN
       last' = [op |-> "instances", outcome |-> r.outcome,
                list |-> IF r.outcome = "ok" THEN r.value ELSE <<>>]
    /\ UNCHANGED <<wrapper, objAttr>>

\* w.unwrap()
DoUnwrap ==
    /\ wrapper # NoWrapper
    /\ LET r == Unwrap(wrapper) IN
       last' = [op |-> "unwrap", outcome |-> r.outcome, value |-> r.value]
    /\ UNCHANGED <<wrapper, objAttr>>

\* repr(w)
DoRepr ==
    /\ wrapper # NoWrapper
    /\ last' = [op |-> "repr", text |-> Repr(wrapper, objAttr)]
    /\ UNCHANGED <<wrapper, objAttr>>

\* cls.collect(**kwargs)
DoCollect(cls, kwargs) ==
    LET r == Collect(cls, kwargs) IN
    /\ last' = [op |-> "collect", cls |-> cls, kwargs |-> kwargs,
                outcome |-> r.outcome, issued |-> r.issued, query |-> r.query]
    /\ UNCHANGED <<wrapper, objAttr>>

Next ==
    \/ \E cls \in WrapperClasses, element \in Objects, t \in EnforceTypes :
          New(cls, element, t)
    \/ \E attr \in AttrNames, value \in Values : SetAttr(attr, value)
    \/ \E attr \in AttrNames : ReadAttr(attr)
    \/ ReadInstances
    \/ DoUnwrap
    \/ DoRepr

\* A script that builds a wrapper and uses it.  A run follows one wrapper:
\* wrappers share no state but the objects they wrap.
Spec == Init /\ [][Next]_vars

NextCollect == \E cls \in WrapperClasses, kwargs \in KwDicts : DoCollect(cls, kwargs)

\* Scripts that call the class-level collect.
SpecCollect == Init /\ [][NextCollect]_vars

-----------------------------------------------------------------------------
(* Claims                                                                  *)

\* Classes that declare an exact-type tag.
TaggedClasses == {"Element", "Instance", "Symbol", "Family", "Category"}

\* Some declared wrapper class is tagged with the exact type of o.
TagMatches(o) == \E c \in TaggedClasses : revit_object_class(c) = TypeOf(o)

\* The wrapper `w' is fully constructed around o.
Holds(w, o) == w # NoWrapper /\ w.dict["_revit_object"] = o

\* C1: for every object o whose exact runtime type is the tag of a declared
\* wrapper class, Element(o) yields a fully constructed instance of that
\* class: its class is the matching class and it holds o.
C1_FactoryYieldsTaggedClass ==
    (last.op = "new" /\ last.cls = "Element" /\ TagMatches(last.arg)) =>
        /\ last.outcome = "ok"
        /\ revit_object_class(last.obj.cls) = TypeOf(last.arg)
        /\ Holds(last.obj, last.arg)

\* C2: when no declared class is tagged with the object's exact type,
\* Element(o) yields the generic Element wrapper exactly when the type
\* descends from DB.Element; otherwise it fails with the factory's
\* unsupported-type error (RPW_Exception) and no wrapper is returned.
C2_FallbackOrUnsupported ==
    (last.op = "new" /\ last.cls = "Element" /\ ~TagMatches(last.arg)) =>
        /\ (last.outcome = "ok" /\ last.obj.cls = "Element"
               /\ Holds(last.obj, last.arg))
             <=> IsInstance(last.arg, "Element")
        /\ ~IsInstance(last.arg, "Element") =>
             /\ last.outcome = "RPW_Exception"
             /\ last.obj = NoWrapper
             /\ wrapper = NoWrapper

\* An untagged object outside the element hierarchy was refused.
C2_Witness ==
    /\ last.op = "new" /\ last.cls = "Element"
    /\ ~TagMatches(last.arg) /\ ~IsInstance(last.arg, "Element")
    /\ last.outcome = "RPW_Exception"

\* C3: for every wrapper a constructor call returned, after any reads and
\* writes through it, unwrap() returns exactly the object passed at
\* construction.
C3_UnwrapReturnsConstructed ==
    last.op = "unwrap" => (last.outcome = "ok" /\ last.value = wrapper.orig)

\* C4 as stated: a write of X with v through a wrapper that holds an object
\* changes exactly one store: the object's X becomes v and the wrapper's
\* attributes are unchanged when the object exposes X; otherwise v is
\* stored in the wrapper's attributes and the objects are unchanged.
C4_WriteChangesOneStore ==
    [][(last'.op = "setattr" /\ wrapper.dict["_revit_object"] # Absent) =>
         LET ref == wrapper.dict["_revit_object"] IN
         IF HasAttr(objAttr, ref, last'.attr)
         THEN /\ objAttr'[ref][last'.attr] = last'.value
              /\ wrapper' = wrapper
         ELSE /\ wrapper'.dict[last'.attr] = last'.value
              /\ objAttr' = objAttr]_vars

\* C4 as amended: a write changes at most one store.  When the wrapped
\* object exposes X, its X becomes v and nothing else changes; when it does
\* not and X is no read-only property of the wrapper's class, v is stored
\* under X in the wrapper's attributes and nothing else changes; when X is
\* such a property the write raises AttributeError, and when the wrapper
\* holds no wrapped object it raises KeyError, both changing nothing.
C4_WriteChangesAtMostOneStore ==
    [][(last'.op = "setattr") =>
         LET ref == wrapper.dict["_revit_object"]
             X == last'.attr
             v == last'.value
         IN CASE ref = Absent ->
                   /\ last'.outcome = "KeyError"
                   /\ UNCHANGED <<wrapper, objAttr>>
              [] ref # Absent /\ HasAttr(objAttr, ref, X) ->
                   /\ last'.outcome = "ok"
                   /\ objAttr' = [objAttr EXCEPT ![ref][X] = v]
                   /\ wrapper' = wrapper
              [] ref # Absent /\ ~HasAttr(objAttr, ref, X)
                   /\ X \in Properties(wrapper.cls) ->
                   /\ last'.outcome = "AttributeError"
                   /\ UNCHANGED <<wrapper, objAttr>>
              [] OTHER ->
                   /\ last'.outcome = "ok"
                   /\ wrapper' = [wrapper EXCEPT !.dict[X] = v]
                   /\ objAttr' = objAttr]_vars

\* A write of Pinned reached the wrapped element and left the wrapper's own
\* attributes without a Pinned entry.
C4_Witness ==
    /\ last.op = "setattr" /\ last.attr = "Pinned" /\ last.outcome = "ok"
    /\ wrapper.dict["_revit_object"] \in Objects
    /\ objAttr[wrapper.dict["_revit_object"]]["Pinned"] = last.value
    /\ InitObjAttr[wrapper.dict["_revit_object"]]["Pinned"] # last.value
    /\ wrapper.dict["Pinned"] = Absent

\* C5: collect(**kwargs) on a class with a default query spec issues the
\* defaults merged with the caller's keywords, the caller's value winning
\* for every key present in both.
C5_CallerOverridesDefaults ==
    (last.op = "collect" /\ collector_params(last.cls) # NoParams) =>
        /\ last.outcome = "ok" /\ last.issued
        /\ \A k \in KwKeys :
             last.query[k] = IF last.kwargs[k] # Absent
                             THEN last.kwargs[k]
                             ELSE collector_params(last.cls)[k]

\* C6: collect() on the generic Element class and on the Category class,
\* which declare no default query spec, fails with the unsupported-operation
\* error (RPW_Exception) and issues no query.
C6_NoDefaultRaisesUnsupported ==
    (last.op = "collect" /\ last.cls \in {"Element", "Category"}
       /\ collector_params(last.cls) = NoParams) =>
        (last.outcome = "RPW_Exception" /\ ~last.issued)

\* C7: reading name on a Family wrapper whose family owns no symbols ends
\* by raising RPW_Exception.
C7_EmptyFamilyNameRaisesDomainError ==
    (/\ last.op = "getattr" /\ last.attr = "name"
     /\ wrapper.cls = "Family"
     /\ TypeOf(wrapper.dict["_revit_object"]) = "Family"
     /\ GetFamilySymbolIds(wrapper.dict["_revit_object"]) = <<>>) =>
        last.outcome = "RPW_Exception"

\* C8: repr of a wrapper built around an object of its class's required
\* type never raises, and its text names the wrapper's class followed by
\* the wrapped type's name or by one field and its value.
C8_ReprNeverRaises ==
    (/\ last.op = "repr"
     /\ \/ wrapper.cls = "BaseObjectWrapper"
        \/ IsInstance(wrapper.orig, revit_object_class(wrapper.cls))) =>
        /\ last.text.outcome = "ok"
        /\ last.text.class_name = wrapper.cls
        /\ last.text.field \in {"", "id", "symbol", "name"}

RECURSIVE ConcatInstances(_)
\* Symbol.instances of each symbol, one list after the other.
ConcatInstances(symbols) ==
    IF symbols = <<>> THEN <<>>
    ELSE SymbolInstances(Head(symbols)) \o ConcatInstances(Tail(symbols))

\* C9: Family.instances is flat: each member is a single instance, and the
\* members are the instances of the family's symbols, in order.
C9_FamilyInstancesFlat ==
    (last.op = "instances" /\ last.outcome = "ok") =>
        /\ \A j \in DOMAIN last.list : last.list[j].kind = "element"
        /\ last.list = PyElements(
             ConcatInstances(GetFamilySymbolIds(wrapper.dict["_revit_object"])))

\* C10: Instance(o), Symbol(o) or Family(o) with o no instance of the
\* class's required type fails with RPW_TypeError and returns no wrapper,
\* whatever tag o's type matches and whether or not it is an element.
C10_TypeMismatchBeforeDispatch ==
    (/\ last.op = "new"
     /\ last.cls \in {"Instance", "Symbol", "Family"}
     /\ ~IsInstance(last.arg, revit_object_class(last.cls))) =>
        /\ last.outcome = "RPW_TypeError"
        /\ last.obj = NoWrapper
        /\ wrapper = NoWrapper

\* Instance(f) was refused for a family f, whose type is Family's own tag.
C10_Witness ==
    /\ last.op = "new" /\ last.cls = "Instance"
    /\ TypeOf(last.arg) = "Family"
    /\ last.outcome = "RPW_TypeError"
    /\ wrapper = NoWrapper

====
